---- MODULE Spec2Model ----
(***************************************************************************)
(* Retrieval pipeline of the portfolio assistant                           *)
(* (src/frontend/app/api/chat/route.js): the collection registry file,     *)
(* the chunk overlap detector, the ingestion of documents into per-file    *)
(* vector collections and the federated search over the registry.          *)
(*                                                                         *)
(* A text is a sequence of one-character strings, so that the string       *)
(* operations of the code (split, join, slice, trim) are computed, not     *)
(* assumed.                                                                *)
(***************************************************************************)
EXTENDS Integers, Sequences, FiniteSets, TLC

VARIABLES
  text1, text2, overlapOut,                    \* findTextOverlap: arguments, result
  file, appDir, loaded, appended, lastOp,      \* registry file app/collections.txt
  pc, files, idx, collectionNames, cur,        \* initialize / processAllPDFs
  store, log, resetFailed,
  spc, topK, collections, cidx, allResults,    \* searchAllCollections
  responses, embedCalls, searchOut

overlapVars  == <<text1, text2, overlapOut>>
registryVars == <<file, appDir, loaded, appended, lastOp>>
ingestVars   == <<pc, files, idx, collectionNames, cur, store, log, resetFailed>>
searchVars   == <<spc, topK, collections, cidx, allResults, responses, embedCalls, searchOut>>
vars == <<overlapVars, registryVars, ingestVars, searchVars>>

----------------------------------------------------------------------------
(* Bounds of the model *)

MaxLen == 4           \* longest text given to findTextOverlap
MaxAppends == 2       \* registry appends between two resets
MaxFiles == 2         \* files found by getAllFiles
MaxCollections == 3   \* records of the registry a search runs over

----------------------------------------------------------------------------
(* JavaScript string operations *)

\* undefined and null: values no text equals
NoValue == <<"undefined">>
Null == <<"null">>

WhiteSpace == {" ", "\n", "\t"}

Min(a, b) == IF a <= b THEN a ELSE b

\* s.slice(from) for 0 <= from, and s.slice(0, to): 0-based, end exclusive
SliceFrom(s, from) == SubSeq(s, from + 1, Len(s))
SliceTo(s, to) == SubSeq(s, 1, Min(to, Len(s)))

\* s.slice(-n) for n >= 1
SliceLast(s, n) == IF n >= Len(s) THEN s ELSE SubSeq(s, Len(s) - n + 1, Len(s))

RECURSIVE TrimStart(_)
TrimStart(s) ==
  IF s # <<>> /\ Head(s) \in WhiteSpace THEN TrimStart(Tail(s)) ELSE s

RECURSIVE TrimEnd(_)
TrimEnd(s) ==
  IF s # <<>> /\ s[Len(s)] \in WhiteSpace
    THEN TrimEnd(SubSeq(s, 1, Len(s) - 1))
    ELSE s

\* String.prototype.trim
Trim(s) == TrimEnd(TrimStart(s))

\* String.prototype.split(sep) for a one-character separator: every
\* occurrence of sep ends a token, so "".split(" ") is [""] and
\* "a  b".split(" ") is ["a", "", "b"]
RECURSIVE SplitAcc(_, _, _)
SplitAcc(s, sep, tok) ==
  IF s = <<>> THEN <<tok>>
  ELSE IF Head(s) = sep
    THEN <<tok>> \o SplitAcc(Tail(s), sep, <<>>)
    ELSE SplitAcc(Tail(s), sep, Append(tok, Head(s)))

Split(s, sep) == SplitAcc(s, sep, <<>>)

\* Array.prototype.join(sep) for a one-character separator
RECURSIVE Join(_, _)
Join(ws, sep) ==
  IF ws = <<>> THEN <<>>
  ELSE IF Len(ws) = 1 THEN ws[1]
  ELSE ws[1] \o <<sep>> \o Join(Tail(ws), sep)

----------------------------------------------------------------------------
(* Chunk overlap detector *)

\* the body of the for loop of findTextOverlap, from window size i on
RECURSIVE OverlapLoop(_, _, _, _)
OverlapLoop(words1, words2, i, maxOverlap) ==
  IF i > Min(Len(words1), Len(words2)) THEN maxOverlap
  ELSE LET ending == Join(SliceLast(words1, i), " ")
           beginning == Join(SliceTo(words2, i), " ")
       IN OverlapLoop(words1, words2, i + 1,
            IF ending = beginning /\ Len(ending) > Len(maxOverlap)
              THEN ending ELSE maxOverlap)

findTextOverlap(t1, t2) ==
  OverlapLoop(Split(t1, " "), Split(t2, " "), 1, <<>>)

----------------------------------------------------------------------------
(* Collection registry: the file app/collections.txt *)

\* the file is absent, or holds a text
NoFile == [exists |-> FALSE, content |-> <<>>]

\* line 81: the entry one record is written as
Entry(collectionName, source) == collectionName \o <<"|">> \o source \o <<"\n">>

\* saveCollectionName: fault is "none", "mkdir" or "append"; an I/O error is
\* caught and logged, the function returns nothing either way.
\* The result is the directory and the file after the call.
saveCollectionName(f, dir, collectionName, source, fault) ==
  IF ~dir /\ fault = "mkdir" THEN [dir |-> dir, file |-> f]
  ELSE IF fault = "append" THEN [dir |-> TRUE, file |-> f]
  ELSE [dir |-> TRUE,
        file |-> [exists |-> TRUE,
                  content |-> f.content \o Entry(collectionName, source)]]

\* line 109: const [name, source] = line.split("|")
ParseLine(line) ==
  LET parts == Split(line, "|")
  IN [name |-> parts[1],
      source |-> IF Len(parts) >= 2 THEN parts[2] ELSE NoValue]

\* lines 103-106: content.trim().split("\n").filter(line => line.trim() !== "")
Lines(content) ==
  SelectSeq(Split(Trim(content), "\n"), LAMBDA line : Trim(line) # <<>>)

ParseContent(content) ==
  LET ls == Lines(content)
  IN [i \in 1..Len(ls) |-> ParseLine(ls[i])]

\* loadCollectionNames: readOk is whether readFileSync completes
loadCollectionNames(f, readOk) ==
  IF ~f.exists THEN <<>>
  ELSE IF ~readOk THEN <<>>
  ELSE ParseContent(f.content)

\* clearCollectionsFile: unlinkOk is whether unlinkSync completes
clearCollectionsFile(f, unlinkOk) ==
  IF f.exists /\ unlinkOk THEN NoFile ELSE f

----------------------------------------------------------------------------
(* The parts of the state a specification leaves alone *)

OverlapIdle == text1 = <<>> /\ text2 = <<>> /\ overlapOut = NoValue

RegistryLogIdle == loaded = <<>> /\ appended = <<>> /\ lastOp = "init"

\* no call of processSinglePDF is under way
NoCur ==
  [filePath |-> <<>>, fileName |-> <<>>, source |-> <<>>,
   collectionName |-> <<>>, documents |-> <<>>, parsed |-> FALSE, i |-> 0,
   ids |-> <<>>, metadatas |-> <<>>, docTexts |-> <<>>, embeddings |-> <<>>,
   chunksBefore |-> 0, recordsBefore |-> 0]

IngestIdle ==
  /\ pc = "idle" /\ files = <<>> /\ idx = 0 /\ collectionNames = <<>>
  /\ cur = NoCur /\ store = <<>> /\ log = <<>> /\ resetFailed = FALSE

SearchIdle ==
  /\ spc = "idle" /\ topK = 0 /\ collections = <<>> /\ cidx = 0
  /\ allResults = <<>> /\ responses = <<>> /\ embedCalls = 0
  /\ searchOut = NoValue

----------------------------------------------------------------------------
(* The overlap detector on its own: every pair of texts up to MaxLen *)

OverlapAlphabet == {"a", "b", " "}

Texts(alphabet, n) == UNION {[1..k -> alphabet] : k \in 0..n}

InitOverlap ==
  /\ text1 \in Texts(OverlapAlphabet, MaxLen)
  /\ text2 \in Texts(OverlapAlphabet, MaxLen)
  /\ overlapOut = NoValue
  /\ file = NoFile /\ appDir = FALSE /\ RegistryLogIdle
  /\ IngestIdle /\ SearchIdle

CallFindTextOverlap ==
  /\ overlapOut = NoValue
  /\ overlapOut' = findTextOverlap(text1, text2)
  /\ UNCHANGED <<text1, text2, registryVars, ingestVars, searchVars>>

SpecOverlap == InitOverlap /\ [][CallFindTextOverlap]_vars

\* the words of a text: its maximal runs of characters that are not whitespace
RECURSIVE WordsAcc(_, _)
WordsAcc(s, tok) ==
  IF s = <<>> THEN (IF tok = <<>> THEN <<>> ELSE <<tok>>)
  ELSE IF Head(s) \in WhiteSpace
    THEN (IF tok = <<>> THEN <<>> ELSE <<tok>>) \o WordsAcc(Tail(s), <<>>)
    ELSE WordsAcc(Tail(s), Append(tok, Head(s)))

Words(s) == WordsAcc(s, <<>>)

\* the window sizes k at which the last k words of prev are the first k of next
MatchingK(prev, next) ==
  {k \in 1..Min(Len(Words(prev)), Len(Words(next))) :
     SliceLast(Words(prev), k) = SliceTo(Words(next), k)}

MaxOf(S) == CHOOSE m \in S : \A x \in S : x <= m

ReferenceOverlap(prev, next) ==
  IF MatchingK(prev, next) = {} THEN <<>>
  ELSE Join(SliceLast(Words(prev), MaxOf(MatchingK(prev, next))), " ")

\* C9: findTextOverlap(prev, next) is the last k words of prev joined by
\* single spaces, for the largest k at which the last k whitespace-delimited
\* words of prev are the first k whitespace-delimited words of next, and the
\* empty text when there is no such k
OverlapIsReference ==
  overlapOut # NoValue => overlapOut = ReferenceOverlap(text1, text2)

----------------------------------------------------------------------------
(* The registry on its own: appends, resets and loads in any order *)

\* ids and source labels: no "|" and no newline
FieldAlphabet == {"a", " "}
MaxFieldLen == 1
Fields == Texts(FieldAlphabet, MaxFieldLen)

InitRegistry ==
  /\ file = NoFile /\ appDir \in BOOLEAN /\ RegistryLogIdle
  /\ OverlapIdle /\ IngestIdle /\ SearchIdle

\* appended is the history of the records whose write completed since the
\* file was last removed
RegAppend ==
  \E name \in Fields, source \in Fields, fault \in {"none", "mkdir", "append"} :
    LET r == saveCollectionName(file, appDir, name, source, fault)
    IN /\ Len(appended) < MaxAppends
       /\ file' = r.file
       /\ appDir' = r.dir
       /\ appended' = IF r.file # file
                        THEN Append(appended, [name |-> name, source |-> source])
                        ELSE appended
       /\ lastOp' = "append"
       /\ UNCHANGED <<loaded, overlapVars, ingestVars, searchVars>>

RegClear ==
  \E unlinkOk \in BOOLEAN :
    /\ file' = clearCollectionsFile(file, unlinkOk)
    /\ appended' = IF file'.exists THEN appended ELSE <<>>
    /\ lastOp' = IF file'.exists THEN "clearError" ELSE "clear"
    /\ UNCHANGED <<appDir, loaded, overlapVars, ingestVars, searchVars>>

RegLoad ==
  \E readOk \in BOOLEAN :
    /\ loaded' = loadCollectionNames(file, readOk)
    /\ lastOp' = IF file.exists /\ ~readOk THEN "loadError" ELSE "load"
    /\ UNCHANGED <<file, appDir, appended, overlapVars, ingestVars, searchVars>>

NextRegistry == RegAppend \/ RegClear \/ RegLoad

SpecRegistry == InitRegistry /\ [][NextRegistry]_vars

\* C7: a load whose read completes returns exactly the records written since
\* the most recent reset, one per append, in append order (the empty
\* sequence right after a reset and before any append)
LoadReturnsAppended ==
  lastOp = "load" => loaded = appended

----------------------------------------------------------------------------
(* Ingestion: initialize, processAllPDFs, processSinglePDF *)

Rep(c, n) == [k \in 1..n |-> c]

Digit(n) == <<"0", "1", "2", "3", "4", "5", "6", "7", "8", "9">>[n + 1]

\* `chunk_${i}`
ChunkId(i) == <<"c", "h", "u", "n", "k", "_", Digit(i)>>

Lower(c) == CASE c = "A" -> "a" [] c = "B" -> "b" [] OTHER -> c

\* String.prototype.toLowerCase
ToLowerCase(s) == [k \in 1..Len(s) |-> Lower(s[k])]

LastIndexOf(s, c) ==
  IF \E k \in 1..Len(s) : s[k] = c
    THEN MaxOf({k \in 1..Len(s) : s[k] = c})
    ELSE 0

\* path.basename
Basename(path) == SliceFrom(path, LastIndexOf(path, "/"))

\* fileName.replace(/\.[^/.]+$/, ""): a last extension of one or more
\* characters, none of them "/" or ".", is dropped
Stem(fileName) ==
  LET dot == LastIndexOf(fileName, ".")
  IN IF dot > 0 /\ dot < Len(fileName)
        /\ \A k \in dot + 1..Len(fileName) : fileName[k] # "/"
       THEN SubSeq(fileName, 1, dot - 1)
       ELSE fileName

\* lines 163-169
SourceLabel(fileName) ==
  LET splitFileName == Split(fileName, "_")
  IN IF Len(splitFileName) > 1
       THEN ToLowerCase(splitFileName[1])
       ELSE ToLowerCase(fileName)

\* generateCollectionName: timestamp is Date.now(), random the six
\* characters drawn from Math.random(); neither is unique by construction
generateCollectionName(prefix, timestamp, random) ==
  prefix \o <<"_">> \o timestamp \o <<"_">> \o random

\* line 172: `doc_${fileName.replace(/\.[^/.]+$/, "")}`
CollectionPrefix(fileName) == <<"d", "o", "c", "_">> \o Stem(fileName)

\* line 275: `document:${fileName}`
RegistrySource(fileName) ==
  <<"d", "o", "c", "u", "m", "e", "n", "t", ":">> \o fileName

\* line 240: an overlap is recorded when it is longer than this
OverlapThreshold == 20

\* line 222: !chunkText || chunkText.trim().length === 0
IsEmptyChunk(chunkText) == chunkText = <<>> \/ Len(Trim(chunkText)) = 0

\* lines 235-247: the overlap of chunk i (0-based) with the chunk before it
OverlapInfo(documents, i) ==
  LET overlap == findTextOverlap(documents[i], documents[i + 1])
  IN IF i > 0 /\ documents[i] # <<>> /\ Len(overlap) > OverlapThreshold
       THEN [isNull |-> FALSE,
             withChunk |-> ChunkId(i - 1),
             overlapLength |-> Len(overlap)]
       ELSE [isNull |-> TRUE, withChunk |-> <<>>, overlapLength |-> 0]

\* lines 252-263
Metadata(documents, i, fileName, source) ==
  LET overlapInfo == OverlapInfo(documents, i)
  IN [chunkIndex |-> i,
      fileName |-> fileName,
      totalChunksInFile |-> Len(documents),
      wordCount |-> Len(Split(documents[i + 1], " ")),
      previousChunk |-> IF i > 0 THEN ChunkId(i - 1) ELSE <<>>,
      nextChunk |-> IF i < Len(documents) - 1 THEN ChunkId(i + 1) ELSE <<>>,
      hasOverlap |-> ~overlapInfo.isNull,
      overlapWith |-> IF ~overlapInfo.isNull THEN overlapInfo.withChunk ELSE <<>>,
      overlapLength |-> IF ~overlapInfo.isNull THEN overlapInfo.overlapLength ELSE 0,
      source |-> source]

\* the embedding service, as a function of the text
Embedding(text) == [of |-> text]

\* a plausible slip: the write and the registration are not guarded
ShouldStoreAlways(ids) == TRUE

\* line 266: if (ids.length > 0)
ShouldStore(ids) == Len(ids) > 0

\* lines 268-273: the tuples one collection.add call writes
AddedTuples(c) ==
  [k \in 1..Len(c.ids) |->
     [id |-> c.ids[k], document |-> c.docTexts[k],
      embedding |-> c.embeddings[k], metadata |-> c.metadatas[k]]]

\* a plausible slip: a file that fails ends the batch
NextFileIndexAbort(i, n, ret) == IF ret = Null THEN n ELSE i + 1

\* lines 288-293: the loop goes on to the next file whatever the last returned
NextFileIndex(i, n, ret) == i + 1

RECURSIVE SumLen(_, _)
SumLen(f, names) ==
  IF names = {} THEN 0
  ELSE LET n == CHOOSE x \in names : TRUE
       IN Len(f[n]) + SumLen(f, names \ {n})

\* the chunk tuples the vector store holds, over all its collections
StoredChunks(st) == SumLen(st, DOMAIN st)

\* the records a load of the registry returns
Registry(f) == loadCollectionNames(f, TRUE)

RegistryNames(f) ==
  LET registry == Registry(f)
  IN {registry[k].name : k \in 1..Len(registry)}

\* chunk texts: the overlap of TextA's end with TextB's start is 21
\* characters, as is that of the whitespace of Blank with TextC's start
Empty == <<>>
Blank == Rep(" ", 22)
TextA == <<"x", " ">> \o Rep("a", 21)
TextB == Rep("a", 21) \o <<" ", "y">>
TextC == Rep(" ", 22) \o <<"z">>

\* what the parser may return for a file
DocumentLists ==
  { <<>>,
    <<Empty, Blank>>,
    <<TextA, TextB>>,
    <<TextA, Empty, TextB>>,
    <<TextA, Blank, TextB>>,
    <<Blank, TextC>> }

\* the files under ./doc, in the order getAllFiles walks them: two of them
\* have the same base name
PathA == <<"d", "/", "A", "_", "b", ".", "p">>
PathC == <<"d", "/", "c">>
PathE == <<"d", "/", "e", "/", "c">>
AllPaths == <<PathA, PathC, PathE>>

RECURSIVE SubSequences(_)
SubSequences(s) ==
  IF s = <<>> THEN {<<>>}
  ELSE LET rest == SubSequences(Tail(s))
       IN rest \cup {<<Head(s)>> \o r : r \in rest}

FileLists == {fs \in SubSequences(AllPaths) : Len(fs) <= MaxFiles}

Timestamps == {<<"0">>, <<"1">>}
Randoms == {<<"r">>}

\* the previous corpus generation: one populated, registered collection
OldFileName == <<"c">>
OldName == generateCollectionName(CollectionPrefix(OldFileName), <<"0">>, <<"r">>)
OldCur ==
  [ids |-> <<ChunkId(0)>>, docTexts |-> <<TextA>>,
   embeddings |-> <<Embedding(TextA)>>,
   metadatas |-> <<Metadata(<<TextA>>, 0, OldFileName, SourceLabel(OldFileName))>>]
OldFile == saveCollectionName(NoFile, TRUE, OldName, RegistrySource(OldFileName), "none").file
OldStore == OldName :> AddedTuples(OldCur)

\* before initialize runs there is no registry, or that of the previous
\* corpus generation
Init ==
  /\ \/ file = NoFile /\ appDir \in BOOLEAN /\ store = <<>>
     \/ file = OldFile /\ appDir = TRUE /\ store = OldStore
  /\ pc = "idle" /\ files = <<>> /\ idx = 0 /\ collectionNames = <<>>
  /\ cur = NoCur /\ log = <<>> /\ resetFailed = FALSE
  /\ RegistryLogIdle /\ OverlapIdle /\ SearchIdle

notIngest == <<loaded, appended, lastOp, overlapVars, searchVars>>

\* initialize, line 438: the registry is reset; an unlink error is caught
\* and logged inside clearCollectionsFile
Initialize ==
  /\ pc = "idle"
  /\ \E unlinkOk \in BOOLEAN :
       /\ file' = clearCollectionsFile(file, unlinkOk)
       /\ resetFailed' = (file.exists /\ ~unlinkOk)
  /\ pc' = "getAllFiles"
  /\ UNCHANGED <<appDir, files, idx, collectionNames, cur, store, log, notIngest>>

\* line 439: the files are listed
GetAllFiles ==
  /\ pc = "getAllFiles"
  /\ files' \in FileLists
  /\ pc' = "loop"
  /\ UNCHANGED <<file, appDir, idx, collectionNames, cur, store, log,
                 resetFailed, notIngest>>

\* line 439: readdirSync or statSync throws and initialize rejects
GetAllFilesThrows ==
  /\ pc = "getAllFiles"
  /\ pc' = "rejected"
  /\ UNCHANGED <<file, appDir, files, idx, collectionNames, cur, store, log,
                 resetFailed, notIngest>>

\* processSinglePDF returns ret (a collection name, or Null from the catch
\* block after fault) to the loop of processAllPDFs, lines 289-292.
\* The log entry is the history of the call: what it was given, what it
\* returned, and what it changed in the vector store and in the registry.
Returns(ret, fault, appendFailed, c, fileAfter, storeAfter) ==
  /\ log' = Append(log,
       [file |-> c.filePath, name |-> c.collectionName, fault |-> fault,
        appendFailed |-> appendFailed, ret |-> ret,
        parsed |-> c.parsed, documents |-> c.documents,
        chunksWritten |-> StoredChunks(storeAfter) - c.chunksBefore,
        recordsAdded |-> Len(Registry(fileAfter)) - c.recordsBefore])
  /\ collectionNames' = IF ret # Null THEN Append(collectionNames, ret)
                                      ELSE collectionNames
  /\ idx' = NextFileIndex(idx, Len(files), ret)
  /\ cur' = NoCur
  /\ pc' = "loop"

\* lines 161-208: the names are derived and the collection is created;
\* createCollection throws when the store fails or holds the name already
StartFile ==
  /\ pc = "loop" /\ idx < Len(files)
  /\ \E timestamp \in Timestamps, random \in Randoms, createOk \in BOOLEAN :
       LET filePath == files[idx + 1]
           fileName == Basename(filePath)
           name == generateCollectionName(CollectionPrefix(fileName), timestamp, random)
           c == [filePath |-> filePath, fileName |-> fileName,
                 source |-> SourceLabel(fileName), collectionName |-> name,
                 documents |-> <<>>, parsed |-> FALSE, i |-> 0,
                 ids |-> <<>>, metadatas |-> <<>>, docTexts |-> <<>>,
                 embeddings |-> <<>>,
                 chunksBefore |-> StoredChunks(store),
                 recordsBefore |-> Len(Registry(file))]
       IN IF createOk /\ name \notin DOMAIN store
            THEN /\ store' = (name :> <<>>) @@ store
                 /\ cur' = c
                 /\ pc' = "loadData"
                 /\ UNCHANGED <<idx, collectionNames, log>>
            ELSE /\ Returns(Null, "create", FALSE, c, file, store)
                 /\ UNCHANGED store
  /\ UNCHANGED <<file, appDir, files, resetFailed, notIngest>>

\* line 210: the parser returns the chunks of the file, or throws
LoadData ==
  /\ pc = "loadData"
  /\ \E documents \in DocumentLists, parseOk \in BOOLEAN :
       IF parseOk
         THEN /\ cur' = [cur EXCEPT !.documents = documents, !.parsed = TRUE]
              /\ pc' = "chunk"
              /\ UNCHANGED <<idx, collectionNames, log>>
         ELSE Returns(Null, "parse", FALSE, cur, file, store)
  /\ UNCHANGED <<file, appDir, files, store, resetFailed, notIngest>>

\* lines 218-264: one turn of the loop over the chunks; createEmbedding
\* throws when the embedding service fails
ChunkStep ==
  /\ pc = "chunk" /\ cur.i < Len(cur.documents)
  /\ LET chunkText == cur.documents[cur.i + 1]
     IN IF IsEmptyChunk(chunkText)
          THEN /\ cur' = [cur EXCEPT !.i = cur.i + 1]
               /\ UNCHANGED <<pc, idx, collectionNames, log>>
          ELSE \E embedOk \in BOOLEAN :
                 IF embedOk
                   THEN /\ cur' = [cur EXCEPT
                             !.i = cur.i + 1,
                             !.ids = Append(cur.ids, ChunkId(cur.i)),
                             !.docTexts = Append(cur.docTexts, chunkText),
                             !.embeddings = Append(cur.embeddings, Embedding(chunkText)),
                             !.metadatas = Append(cur.metadatas,
                                Metadata(cur.documents, cur.i, cur.fileName, cur.source))]
                        /\ UNCHANGED <<pc, idx, collectionNames, log>>
                   ELSE Returns(Null, "embed", FALSE, cur, file, store)
  /\ UNCHANGED <<file, appDir, files, store, resetFailed, notIngest>>

\* lines 266 and 278: after the last chunk, a file with nothing to store
\* returns its collection name at once
EndOfChunks ==
  /\ pc = "chunk" /\ cur.i = Len(cur.documents)
  /\ IF ShouldStore(cur.ids)
       THEN /\ pc' = "add"
            /\ UNCHANGED <<idx, collectionNames, cur, log>>
       ELSE Returns(cur.collectionName, "none", FALSE, cur, file, store)
  /\ UNCHANGED <<file, appDir, files, store, resetFailed, notIngest>>

\* lines 268-273: the one batch write of the chunks, which may throw
CollectionAdd ==
  /\ pc = "add"
  /\ \E addOk \in BOOLEAN :
       IF addOk
         THEN /\ store' = [store EXCEPT ![cur.collectionName] = AddedTuples(cur)]
              /\ pc' = "save"
              /\ UNCHANGED <<idx, collectionNames, cur, log>>
         ELSE /\ Returns(Null, "add", FALSE, cur, file, store)
              /\ UNCHANGED store
  /\ UNCHANGED <<file, appDir, files, resetFailed, notIngest>>

\* lines 275 and 278: the record is appended (an I/O error is caught inside
\* saveCollectionName) and the collection name is returned
SaveAndReturn ==
  /\ pc = "save"
  /\ \E fault \in {"none", "mkdir", "append"} :
       LET r == saveCollectionName(file, appDir, cur.collectionName,
                                   RegistrySource(cur.fileName), fault)
       IN /\ file' = r.file
          /\ appDir' = r.dir
          /\ Returns(cur.collectionName, "none",
                     fault = "append" \/ (fault = "mkdir" /\ ~appDir),
                     cur, r.file, store)
  /\ UNCHANGED <<files, store, resetFailed, notIngest>>

\* lines 295 and 442: every file was handed to processSinglePDF
Finish ==
  /\ pc = "loop" /\ idx >= Len(files)
  /\ pc' = "done"
  /\ UNCHANGED <<file, appDir, files, idx, collectionNames, cur, store, log,
                 resetFailed, notIngest>>

Next ==
  \/ Initialize \/ GetAllFiles \/ GetAllFilesThrows \/ StartFile \/ LoadData
  \/ ChunkStep \/ EndOfChunks \/ CollectionAdd \/ SaveAndReturn \/ Finish

Spec == Init /\ [][Next]_vars

----------------------------------------------------------------------------
(* Properties of the ingestion *)

\* the chunks of a parse result that are neither empty nor whitespace-only
NonBlank(documents) ==
  {k \in 1..Len(documents) : \E j \in 1..Len(documents[k]) :
                                documents[k][j] \notin WhiteSpace}

Entries == {log[k] : k \in 1..Len(log)}

\* C1: every record of the registry names a collection into which at least
\* one chunk, none of them empty, has been written; no collection has two
\* records; and a file whose chunks are all empty or whitespace-only adds no
\* record, so that a search never iterates over its collection
RegistryOnlyPopulated ==
  LET registry == Registry(file)
  IN /\ \A k \in 1..Len(registry) :
          LET n == registry[k].name
          IN /\ n \in DOMAIN store
             /\ Len(store[n]) >= 1
             /\ \A t \in 1..Len(store[n]) : Trim(store[n][t].document) # <<>>
             /\ \A j \in 1..Len(registry) : registry[j].name = n => j = k
     /\ \A e \in Entries :
          e.parsed /\ e.fault = "none" /\ NonBlank(e.documents) = {}
            => e.recordsAdded = 0
                 /\ \A k \in 1..Len(registry) : registry[k].name # e.name

\* C1 witness: a run that registered one file and met another whose chunks
\* were all empty or whitespace-only
RegistryOnlyPopulatedWitness ==
  /\ pc = "done"
  /\ \E e \in Entries :
       e.parsed /\ e.fault = "none" /\ Len(e.documents) > 0
         /\ NonBlank(e.documents) = {}
  /\ \E e \in Entries : e.recordsAdded = 1 /\ e.name \in RegistryNames(file)

\* C5: processSinglePDF is called once per file, in list order, and the
\* batch ends only after the last file; a file that meets a parse, embedding,
\* create or add failure writes no chunk and adds no record; a file that
\* meets none has all its non-empty chunks written and, when it has any and
\* the registry write completes, its record in the registry
BatchIsolatesFailures ==
  /\ Len(log) <= Len(files)
  /\ \A k \in 1..Len(log) : log[k].file = files[k]
  /\ pc \in {"loop", "done"} => Len(log) = idx
  /\ pc = "done" => Len(log) = Len(files)
  /\ \A e \in Entries :
       /\ e.fault # "none" =>
            e.chunksWritten = 0 /\ e.recordsAdded = 0 /\ e.ret = Null
       /\ e.fault = "none" =>
            /\ e.chunksWritten = Cardinality(NonBlank(e.documents))
            /\ Len(store[e.name]) = Cardinality(NonBlank(e.documents))
            /\ NonBlank(e.documents) # {} /\ ~e.appendFailed =>
                 e.recordsAdded = 1 /\ e.name \in RegistryNames(file)

\* C5 witness: a batch of two files whose first failed and whose second was
\* stored and registered
BatchIsolatesFailuresWitness ==
  /\ pc = "done" /\ Len(log) = 2
  /\ log[1].fault \in {"parse", "embed", "add", "create"}
  /\ log[2].fault = "none" /\ log[2].chunksWritten > 0
  /\ log[2].recordsAdded = 1

\* C6: processSinglePDF returns a collection name only for a collection that
\* was populated and registered, and Null after a parse failure, a result
\* without non-empty chunks or a failed registry append; so every name
\* processAllPDFs returns has a record in the registry
ReturnedIdsAreRegistered ==
  /\ \A e \in Entries :
       /\ e.ret # Null => e.chunksWritten > 0 /\ e.recordsAdded = 1
       /\ (e.fault = "parse" \/ e.appendFailed
             \/ (e.parsed /\ NonBlank(e.documents) = {})) => e.ret = Null
  /\ pc = "done" =>
       \A k \in 1..Len(collectionNames) :
         collectionNames[k] \in RegistryNames(file)

\* C8: when the reset of the registry fails, the run is aborted: no file is
\* processed and the stale registry gets no record
FailedResetAborts ==
  resetFailed =>
    /\ pc \notin {"loadData", "chunk", "add", "save"}
    /\ log = <<>>
    /\ file = OldFile

\* the stored chunk before position t of a collection, if any
StoredOverlap(tuples, t) ==
  findTextOverlap(tuples[t - 1].document, tuples[t].document)

\* C10: the overlap metadata of a stored chunk is that of its text with the
\* text of the non-empty chunk before it, which is the chunk stored before
\* it, and overlapWith names a chunk stored in the collection
OverlapAgainstPrecedingNonEmpty ==
  \A n \in DOMAIN store : \A t \in 1..Len(store[n]) :
    LET m == store[n][t].metadata
        significant == t > 1 /\ Len(StoredOverlap(store[n], t)) > OverlapThreshold
    IN /\ m.hasOverlap = significant
       /\ m.overlapWith = (IF significant THEN store[n][t - 1].id ELSE <<>>)
       /\ m.overlapLength = (IF significant THEN Len(StoredOverlap(store[n], t)) ELSE 0)
       /\ m.hasOverlap => \E u \in 1..Len(store[n]) : store[n][u].id = m.overlapWith

----------------------------------------------------------------------------
(* Federated search: searchAllCollections *)

\* a plausible slip: the comparator is turned round
CompareDistanceReversed(a, b) == b.distance - a.distance

\* line 347: (a, b) => a.distance - b.distance
CompareDistance(a, b) == a.distance - b.distance

\* Array.prototype.sort is stable: x goes after every element that does not
\* compare greater than it
RECURSIVE InsertSorted(_, _)
InsertSorted(sorted, x) ==
  IF sorted = <<>> THEN <<x>>
  ELSE IF CompareDistance(sorted[Len(sorted)], x) <= 0 THEN Append(sorted, x)
  ELSE Append(InsertSorted(SubSeq(sorted, 1, Len(sorted) - 1), x),
              sorted[Len(sorted)])

RECURSIVE SortByDistance(_)
SortByDistance(s) ==
  IF s = <<>> THEN <<>>
  ELSE InsertSorted(SortByDistance(SubSeq(s, 1, Len(s) - 1)), s[Len(s)])

\* line 348: allResults.slice(0, topK * 2)
SliceBound(k) == k * 2

\* lines 332-338: the hits of one collection, tagged with its record
ResultsWithSource(hits, collectionInfo) ==
  [j \in 1..Len(hits) |->
     [document |-> hits[j].document,
      distance |-> hits[j].distance,
      metadata |-> hits[j].metadata,
      source |-> collectionInfo.source,
      collection |-> collectionInfo.name]]

\* a plausible slip: a collection that fails ends the search loop
NextCollectionIndexAbort(i, n, failed) == IF failed THEN n ELSE i + 1

\* lines 321 and 342-344: the catch block is inside the loop, which goes on
NextCollectionIndex(i, n, failed) == i + 1

\* line 314: topK = 3 unless the caller gives another
DefaultTopK == 3
TopKs == 1..DefaultTopK

\* the distances the vector store reports: equal ones and different ones
Distances == {0, 1}

\* what the vector store answers to collection.query({nResults: k}): up to k
\* hits, each with a distance
HitLists(k) ==
  UNION {[1..n -> Distances] : n \in 0..k}

Hits(distances) ==
  [j \in 1..Len(distances) |->
     [document |-> <<"h", Digit(j)>>, distance |-> distances[j],
      metadata |-> [chunkIndex |-> j - 1]]]

\* what one turn of the loop may meet: getCollection throws (the collection
\* was deleted), createEmbedding throws, query throws, the answer holds no
\* documents field, or it holds hits
ResponseKinds ==
  {"getCollectionThrows", "embeddingThrows", "queryThrows", "noDocuments", "hits"}

Failures == {"getCollectionThrows", "embeddingThrows", "queryThrows"}

\* the registry a search may find: the records of n ingested files
RECURSIVE RegistryOf(_)
RegistryOf(n) ==
  IF n = 0 THEN NoFile
  ELSE saveCollectionName(RegistryOf(n - 1), TRUE,
         generateCollectionName(CollectionPrefix(<<"f", Digit(n)>>), <<"0">>, <<"r">>),
         RegistrySource(<<"f", Digit(n)>>), "none").file

InitSearch ==
  /\ \E n \in 0..MaxCollections : file = RegistryOf(n)
  /\ appDir = file.exists
  /\ SearchIdle
  /\ RegistryLogIdle /\ OverlapIdle /\ IngestIdle

notSearch == <<file, appDir, loaded, appended, lastOp, overlapVars, ingestVars>>

\* lines 315-319: the registry is loaded
SearchStart ==
  /\ spc = "idle"
  /\ \E k \in TopKs, readOk \in BOOLEAN :
       /\ topK' = k
       /\ collections' = loadCollectionNames(file, readOk)
  /\ cidx' = 0 /\ allResults' = <<>> /\ responses' = <<>>
  /\ embedCalls' = 0 /\ searchOut' = NoValue
  /\ spc' = "loop"
  /\ UNCHANGED notSearch

\* lines 321-345: one turn of the loop over the collections.
\* responses is the history of what each collection answered.
SearchCollection ==
  /\ spc = "loop" /\ cidx < Len(collections)
  /\ \E kind \in ResponseKinds, distances \in HitLists(topK) :
       /\ kind # "hits" => distances = <<>>
       /\ embedCalls' = IF kind = "getCollectionThrows" THEN embedCalls
                                                         ELSE embedCalls + 1
       /\ allResults' =
            IF kind = "hits" /\ Len(distances) > 0
              THEN allResults \o ResultsWithSource(Hits(distances), collections[cidx + 1])
              ELSE allResults
       /\ cidx' = NextCollectionIndex(cidx, Len(collections), kind \in Failures)
       /\ responses' = Append(responses, [kind |-> kind, hits |-> Hits(distances)])
  /\ UNCHANGED <<spc, topK, collections, searchOut, notSearch>>

\* lines 347-348: the merged hits are sorted and cut
SearchFinish ==
  /\ spc = "loop" /\ cidx >= Len(collections)
  /\ searchOut' = SliceTo(SortByDistance(allResults), SliceBound(topK))
  /\ spc' = "done"
  /\ UNCHANGED <<topK, collections, cidx, allResults, responses, embedCalls, notSearch>>

NextSearch == SearchStart \/ SearchCollection \/ SearchFinish

SpecSearch == InitSearch /\ [][NextSearch]_vars

----------------------------------------------------------------------------
(* Properties of the search *)

\* the hits the collections answered, each tagged with its collection
AnsweredHits ==
  UNION {{[document |-> responses[i].hits[j].document,
           distance |-> responses[i].hits[j].distance,
           metadata |-> responses[i].hits[j].metadata,
           source |-> collections[i].source,
           collection |-> collections[i].name] :
            j \in 1..Len(responses[i].hits)} :
         i \in {i \in 1..Len(responses) : responses[i].kind = "hits"}}

Returned == {searchOut[k] : k \in 1..Len(searchOut)}

\* C2: a search is never ended by a collection that fails: every collection
\* of the registry gets its turn, and every hit of a collection that answered
\* is returned unless the cut at topK * 2 drops it, in which case nothing
\* returned is farther than it
FailuresAreSkipped ==
  /\ spc = "loop" => Len(responses) = cidx /\ cidx <= Len(collections)
  /\ spc = "done" =>
       /\ Len(responses) = Len(collections)
       /\ \A h \in AnsweredHits :
            \/ h \in Returned
            \/ /\ Len(searchOut) = topK * 2
               /\ \A r \in Returned : r.distance <= h.distance

\* C2 witness: of several collections one failed and a later one and an
\* earlier one answered hits that were returned
FailuresAreSkippedWitness ==
  /\ spc = "done" /\ collections = Registry(file) /\ Len(collections) >= 2
  /\ responses[1].kind \in Failures
  /\ responses[2].kind = "hits" /\ Len(responses[2].hits) > 0
  /\ \E r \in Returned : r.collection = collections[2].name

\* C3: the result is sorted by non-decreasing distance, has at most
\* topK * 2 entries, and is a prefix of the merged hits in ascending order:
\* each entry is an answered hit, none is returned twice, no hit is left out
\* while there is room, and no hit left out is nearer than a returned one
ResultIsSortedPrefix ==
  spc = "done" =>
    /\ \A i, j \in 1..Len(searchOut) :
         i < j => searchOut[i].distance <= searchOut[j].distance
    /\ Len(searchOut) <= topK * 2
    /\ Len(searchOut) = Min(topK * 2, Cardinality(AnsweredHits))
    /\ Returned \subseteq AnsweredHits
    /\ Cardinality(Returned) = Len(searchOut)
    /\ \A h \in AnsweredHits \ Returned :
         \A r \in Returned : r.distance <= h.distance

\* C3 witness: more hits than the cut allows, at different distances, given
\* in an order that is not ascending
ResultIsSortedPrefixWitness ==
  /\ spc = "done"
  /\ Cardinality(AnsweredHits) > topK * 2
  /\ Len(searchOut) = topK * 2
  /\ \E i, j \in 1..Len(allResults) :
       i < j /\ allResults[i].distance > allResults[j].distance
  /\ \E h \in AnsweredHits \ Returned :
       \E r \in Returned : r.distance < h.distance

\* C4: a search over one or more collections calls the embedding service
\* exactly once, however many collections there are
EmbeddingComputedOnce ==
  spc = "done" /\ Len(collections) >= 1 => embedCalls = 1

====
